---- MODULE Spec2Model ----
(***************************************************************************)
(* Rule engine and overlap-cluster graph of src/entities/rule.ts.          *)
(*                                                                         *)
(* The layer group (Leaflet) and the geometry oracle (Turf) are external:  *)
(* the model keeps, for every layer id, the facts the code asks them for:  *)
(*   layerGroup  the ids currently in the layer group (eachLayer/getLayer) *)
(*   geoType     the "type" tag of layer.toGeoJSON()                       *)
(*   area        Turf.area(layer.toGeoJSON()), in 1/Unit square metres     *)
(*   overlap     <<x, y, k>> : Turf.booleanOverlap(buffer of x, member k   *)
(*               of y's geometry); member 1 is the geometry of a Feature   *)
(*               or features[0] of a FeatureCollection                     *)
(* The module-level state of rule.ts is layersGraph, areaCache and         *)
(* hasRunOnce (the debug counter pik is written and never read, so it is   *)
(* left out). Every entity owns one Rule made by fastOverlap (rules); the  *)
(* Rule made by isBufferOverlappingRecursive is in no entity's list (its   *)
(* entry in generateRulesForEditor is commented out), so the model keeps   *)
(* one instance of it (naiveRule) that can be checked against any entity.  *)
(*                                                                         *)
(* Loops over a Set or over the layer group are taken in ascending id      *)
(* order; every loop modelled here either aborts the whole evaluation or   *)
(* builds a set or a sum, so its outcome does not depend on the order.     *)
(***************************************************************************)
EXTENDS Integers, FiniteSets, Sequences, TLC

VARIABLES layerGroup, geoType, area, overlap,
          layersGraph, areaCache, hasRunOnce,
          rules, naiveRule,
          rule, given,
          lastCall, purgeDue, edits

\* rule is a Rule of any kind, built from the constructor arguments in given.
\* lastCall observes the most recent call made on the current snapshot of the
\* collection, purgeDue the ids removed from the collection while the graph or
\* the cache tracked them and not evaluated since, edits the number of edits.
vars == <<layerGroup, geoType, area, overlap, layersGraph, areaCache,
          hasRunOnce, rules, naiveRule, rule, given, lastCall, purgeDue, edits>>

collection == <<layerGroup, geoType, area, overlap>>

----------------------------------------------------------------------------
(* Bounds *)

\* Layer ids are 1..MaxId.
MaxId == 3
\* Edits of the collection made from outside the engine in one behaviour.
MaxEdits == 2
\* Areas are whole multiples of 1/Unit square metre.
Unit == 2
\* Member features of a FeatureCollection the oracle is asked about.
MaxFeatures == 2
\* Declared power needs lie at most this far from MAX_POWER_NEED, either side.
MaxNeedStep == 30

Ids == 1..MaxId

(* Program constants *)
MAX_CLUSTER_SIZE == 1250
MAX_POWER_NEED == 8000

\* The type tags of layer.toGeoJSON(): the two the code knows and a bare geometry.
GeoTypes == {"Feature", "FeatureCollection", "Polygon"}

\* Areas the oracle may report: half the threshold, and one resolution step more.
Areas == {(MAX_CLUSTER_SIZE * Unit) \div 2, (MAX_CLUSTER_SIZE * Unit) \div 2 + 1}

Min(S) == CHOOSE x \in S : \A y \in S : x <= y

\* Math.round of an area given in 1/Unit square metres: floor(a / Unit + 1/2).
MathRound(a) == (2 * a + Unit) \div (2 * Unit)

----------------------------------------------------------------------------
(* Messages are records so that a computed text can carry its number. *)

Msg(t, n) == [text |-> t, n |-> n]
EmptyString == Msg("", 0)
ClusterTooBig(totalArea) == Msg("Cluster too big: <n>m2", MathRound(totalArea))

\* A predicate result: an optional field is a set with at most one element.
Result(t, sm, m) == [err |-> "none", triggered |-> t, shortMessage |-> sm, message |-> m]
Thrown(e) == [err |-> e, triggered |-> FALSE, shortMessage |-> {}, message |-> {}]

\* JavaScript truthiness of an optional string: undefined and "" are falsy.
Truthy(opt) == opt # {} /\ opt # {EmptyString}

----------------------------------------------------------------------------
(* class Rule *)

NewRule(sev, shortMessage, message) ==
    [severity |-> sev, triggered |-> FALSE,
     shortMessage |-> shortMessage, message |-> message]

\* Faulty variant: the getter hands out the configured severity whatever the state.
severityStored(r) == r.severity

severity(r) == IF r.triggered THEN r.severity ELSE 0

triggered(r) == r.triggered

\* Faulty variant: a rule that has triggered stays triggered.
checkRuleSticky(r, res) ==
    IF res.err # "none" THEN r
    ELSE [r EXCEPT !.triggered = @ \/ res.triggered,
                   !.shortMessage = IF Truthy(res.shortMessage)
                                    THEN CHOOSE s \in res.shortMessage : TRUE ELSE @,
                   !.message = IF Truthy(res.message)
                               THEN CHOOSE s \in res.message : TRUE ELSE @]

\* Faulty variant: the two texts are assigned whether the result has them or not.
checkRuleOverwrite(r, res) ==
    IF res.err # "none" THEN r
    ELSE [r EXCEPT !.triggered = res.triggered,
                   !.shortMessage = IF res.shortMessage # {}
                                    THEN CHOOSE s \in res.shortMessage : TRUE
                                    ELSE Msg("undefined", 0),
                   !.message = IF res.message # {}
                               THEN CHOOSE s \in res.message : TRUE
                               ELSE Msg("undefined", 0)]

\* Faulty variant: a throw of the callback is taken as "not triggered".
checkRuleClearOnThrow(r, res) ==
    IF res.err # "none" THEN [r EXCEPT !.triggered = FALSE]
    ELSE [r EXCEPT !.triggered = res.triggered,
                   !.shortMessage = IF Truthy(res.shortMessage)
                                    THEN CHOOSE s \in res.shortMessage : TRUE ELSE @,
                   !.message = IF Truthy(res.message)
                               THEN CHOOSE s \in res.message : TRUE ELSE @]

\* checkRule with the callback's outcome res; a throw leaves the rule as it was.
checkRule(r, res) ==
    IF res.err # "none" THEN r
    ELSE [r EXCEPT !.triggered = res.triggered,
                   !.shortMessage = IF Truthy(res.shortMessage)
                                    THEN CHOOSE s \in res.shortMessage : TRUE ELSE @,
                   !.message = IF Truthy(res.message)
                               THEN CHOOSE s \in res.message : TRUE ELSE @]

\* One run of checkRule as its caller sees it: the rule it leaves, the number
\* of times it invoked the callback (one call expression, in no loop), and the
\* exception that reaches the caller (there is no try/catch around the call).
checkRuleRun(r, res) ==
    [rule |-> checkRule(r, res), calls |-> 1, thrown |-> res.err]

----------------------------------------------------------------------------
(* Overlap graph and area cache *)

Put(f, k, v) == [x \in DOMAIN f \cup {k} |-> IF x = k THEN v ELSE f[x]]
Drop(f, k) == [x \in DOMAIN f \ {k} |-> f[x]]

\* The polygon getOverlappingLayerIds tests for another layer: the member
\* index, or a throw.
getLayerPolygon(id) ==
    IF geoType[id] = "Feature" THEN [err |-> "none", member |-> 1]
    ELSE IF geoType[id] = "FeatureCollection" THEN [err |-> "none", member |-> 1]
    ELSE [err |-> "Unsupported geometry type", member |-> 0]

_compareLayers(id1, id2) == id1 = id2

\* Faulty variant: discovery walks every layer it ever knew, not the layer group.
getOverlappingLayerIdsStale(layerID) ==
    LET others == {o \in Ids : ~_compareLayers(layerID, o)}
    IN IF \E o \in others : getLayerPolygon(o).err # "none"
       THEN [err |-> "Unsupported geometry type", ids |-> {}]
       ELSE [err |-> "none",
             ids |-> {o \in others : <<layerID, o, getLayerPolygon(o).member>> \in overlap}]

\* Faulty variant: discovery stops at the first overlapping layer it finds.
getOverlappingLayerIdsFirst(layerID) ==
    LET others == {o \in layerGroup : ~_compareLayers(layerID, o)}
        found == {o \in others : <<layerID, o, getLayerPolygon(o).member>> \in overlap}
    IN IF \E o \in others : getLayerPolygon(o).err # "none"
       THEN [err |-> "Unsupported geometry type", ids |-> {}]
       ELSE [err |-> "none", ids |-> IF found = {} THEN {} ELSE {Min(found)}]

getOverlappingLayerIds(layerID) ==
    LET others == {o \in layerGroup : ~_compareLayers(layerID, o)}
    IN IF \E o \in others : getLayerPolygon(o).err # "none"
       THEN [err |-> "Unsupported geometry type", ids |-> {}]
       ELSE [err |-> "none",
             ids |-> {o \in others : <<layerID, o, getLayerPolygon(o).member>> \in overlap}]

\* Faulty variant: the layer is dropped from the graph and keeps its cached area.
deleteLayerFromCacheGraphOnly(st, layerID) ==
    [cache |-> st.cache,
     graph |-> [k \in DOMAIN st.graph \ {layerID} |-> st.graph[k] \ {layerID}]]

\* st is [graph, cache].
deleteLayerFromCache(st, layerID) ==
    [cache |-> Drop(st.cache, layerID),
     graph |-> [k \in DOMAIN st.graph \ {layerID} |-> st.graph[k] \ {layerID}]]

RECURSIVE deleteLoop(_, _)
deleteLoop(st, keys) ==
    IF keys = {} THEN st
    ELSE LET layerID == Min(keys)
         IN deleteLoop(IF layerID \notin layerGroup
                       THEN deleteLayerFromCache(st, layerID) ELSE st,
                       keys \ {layerID})

deleteFromAreaCache(st) == deleteLoop(st, DOMAIN st.graph)

\* Faulty variant: the neighbour that loses the edge loses its whole set.
RECURSIVE deleteEdgesClearNeighbour(_, _, _)
deleteEdgesClearNeighbour(g, layerID, ids) ==
    IF ids = {} THEN [err |-> "none", graph |-> g]
    ELSE LET id == Min(ids)
         IN IF id \notin DOMAIN g THEN [err |-> "TypeError", graph |-> g]
            ELSE deleteEdgesClearNeighbour([g EXCEPT ![id] = {}, ![layerID] = @ \ {id}],
                                           layerID, ids \ {id})

\* Faulty variant: a deleted edge is removed at layerID only.
RECURSIVE deleteEdgesOneWay(_, _, _)
deleteEdgesOneWay(g, layerID, ids) ==
    IF ids = {} THEN [err |-> "none", graph |-> g]
    ELSE LET id == Min(ids)
         IN IF id \notin DOMAIN g THEN [err |-> "TypeError", graph |-> g]
            ELSE deleteEdgesOneWay([g EXCEPT ![layerID] = @ \ {id}], layerID, ids \ {id})

\* for (let id of idsToDelete): a missing entry for id is a TypeError.
RECURSIVE deleteEdges(_, _, _)
deleteEdges(g, layerID, ids) ==
    IF ids = {} THEN [err |-> "none", graph |-> g]
    ELSE LET id == Min(ids)
         IN IF id \notin DOMAIN g THEN [err |-> "TypeError", graph |-> g]
            ELSE deleteEdges([g EXCEPT ![id] = @ \ {layerID}, ![layerID] = @ \ {id}],
                             layerID, ids \ {id})

\* Faulty variant: the edge is recorded at layerID only.
RECURSIVE createEdgesOneWay(_, _, _)
createEdgesOneWay(g, layerID, ids) ==
    IF ids = {} THEN g
    ELSE LET id == Min(ids)
             g1 == IF id \in DOMAIN g THEN g ELSE Put(g, id, {})
         IN createEdgesOneWay([g1 EXCEPT ![layerID] = @ \cup {id}], layerID, ids \ {id})

\* for (let id of idsToCreate)
RECURSIVE createEdges(_, _, _)
createEdges(g, layerID, ids) ==
    IF ids = {} THEN g
    ELSE LET id == Min(ids)
             g1 == IF id \in DOMAIN g THEN g ELSE Put(g, id, {})
         IN createEdges([g1 EXCEPT ![id] = @ \cup {layerID}, ![layerID] = @ \cup {id}],
                        layerID, ids \ {id})

\* Faulty variant: edges are only ever added, as in the one-time build of
\* the graph (deleteFlag false).
updateLayerGraphAddOnly(graph, layerID, connLayersIDs, del) ==
    LET g0 == IF layerID \in DOMAIN graph THEN graph ELSE Put(graph, layerID, {})
    IN [err |-> "none", graph |-> createEdges(g0, layerID, connLayersIDs \ g0[layerID])]

updateLayerGraph(graph, layerID, connLayersIDs, del) ==
    LET g0 == IF layerID \in DOMAIN graph THEN graph ELSE Put(graph, layerID, {})
        prevConnLayersIDs == g0[layerID]
        idsToDelete == prevConnLayersIDs \ connLayersIDs
        idsToCreate == connLayersIDs \ prevConnLayersIDs
        d == IF del THEN deleteEdges(g0, layerID, idsToDelete)
             ELSE [err |-> "none", graph |-> g0]
    IN IF d.err # "none" THEN d
       ELSE [err |-> "none", graph |-> createEdges(d.graph, layerID, idsToCreate)]

\* Faulty variant: the area of a layer of the group is taken afresh on every lookup.
getAreaFromCacheRecompute(cache, layerID) ==
    IF layerID \in layerGroup
    THEN [err |-> "none", cache |-> Put(cache, layerID, area[layerID]),
          area |-> area[layerID]]
    ELSE IF layerID \in DOMAIN cache
    THEN [err |-> "none", cache |-> cache, area |-> cache[layerID]]
    ELSE [err |-> "Layer not found", cache |-> cache, area |-> 0]

getAreaFromCache(cache, layerID) ==
    IF layerID \in DOMAIN cache THEN [err |-> "none", cache |-> cache, area |-> cache[layerID]]
    ELSE IF layerID \in layerGroup
         THEN [err |-> "none", cache |-> Put(cache, layerID, area[layerID]),
               area |-> area[layerID]]
         ELSE [err |-> "Layer not found", cache |-> cache, area |-> 0]

\* Depth-first sum over graph; the visited set and the cache are threaded
\* through the calls.  The neighbours are taken in ascending order.  expanded
\* counts the calls that got past the visited test (those that read an area
\* and walk a neighbour set).
RECURSIVE _recursiveGetTotalArea(_, _, _, _)
RECURSIVE sumNeighbours(_, _, _, _, _, _)
_recursiveGetTotalArea(graph, layerID, checkedLayerIDs, cache) ==
    IF layerID \in checkedLayerIDs
    THEN [err |-> "none", totalArea |-> 0, checked |-> checkedLayerIDs, cache |-> cache,
          expanded |-> 0]
    ELSE LET checked1 == checkedLayerIDs \cup {layerID}
             a == getAreaFromCache(cache, layerID)
         IN IF a.err # "none"
            THEN [err |-> a.err, totalArea |-> 0, checked |-> checked1, cache |-> a.cache,
                  expanded |-> 1]
            ELSE IF layerID \notin DOMAIN graph
            THEN [err |-> "TypeError", totalArea |-> 0, checked |-> checked1,
                  cache |-> a.cache, expanded |-> 1]
            ELSE sumNeighbours(graph, graph[layerID], a.area, checked1, a.cache, 1)

\* Faulty variant: the visited set of a recursive call is not kept for the next one.
RECURSIVE sumNeighboursForgetful(_, _, _, _, _, _)
sumNeighboursForgetful(graph, todo, totalArea, checked, cache, expanded) ==
    IF todo = {}
    THEN [err |-> "none", totalArea |-> totalArea, checked |-> checked, cache |-> cache,
          expanded |-> expanded]
    ELSE LET otherLayerID == Min(todo)
             r == _recursiveGetTotalArea(graph, otherLayerID, checked, cache)
         IN IF r.err # "none" THEN [r EXCEPT !.expanded = @ + expanded]
            ELSE sumNeighboursForgetful(graph, todo \ {otherLayerID},
                                        totalArea + r.totalArea,
                                        checked \cup {otherLayerID}, r.cache,
                                        expanded + r.expanded)

\* Faulty variant: the areas of the neighbours are added without walking on
\* from them.
RECURSIVE sumNeighboursDirect(_, _, _, _, _, _)
sumNeighboursDirect(graph, todo, totalArea, checked, cache, expanded) ==
    IF todo = {}
    THEN [err |-> "none", totalArea |-> totalArea, checked |-> checked, cache |-> cache,
          expanded |-> expanded]
    ELSE LET otherLayerID == Min(todo)
             a == getAreaFromCache(cache, otherLayerID)
         IN IF otherLayerID \in checked
            THEN sumNeighboursDirect(graph, todo \ {otherLayerID}, totalArea, checked,
                                     cache, expanded)
            ELSE IF a.err # "none"
            THEN [err |-> a.err, totalArea |-> 0, checked |-> checked, cache |-> a.cache,
                  expanded |-> expanded]
            ELSE sumNeighboursDirect(graph, todo \ {otherLayerID}, totalArea + a.area,
                                     checked \cup {otherLayerID}, a.cache, expanded + 1)

\* for (let otherLayerID of layersGraph[layerID])
sumNeighbours(graph, todo, totalArea, checked, cache, expanded) ==
    IF todo = {}
    THEN [err |-> "none", totalArea |-> totalArea, checked |-> checked, cache |-> cache,
          expanded |-> expanded]
    ELSE LET otherLayerID == Min(todo)
             r == _recursiveGetTotalArea(graph, otherLayerID, checked, cache)
         IN IF r.err # "none" THEN [r EXCEPT !.expanded = @ + expanded]
            ELSE sumNeighbours(graph, todo \ {otherLayerID},
                               totalArea + r.totalArea, r.checked, r.cache,
                               expanded + r.expanded)

\* Faulty variant: a total equal to the maximum triggers too.
fastOverlapDecisionAtLeast(totalArea) ==
    IF totalArea >= MAX_CLUSTER_SIZE * Unit
    THEN Result(TRUE, {ClusterTooBig(totalArea)}, {})
    ELSE Result(FALSE, {}, {})

\* The decision of fastOverlap on the total (in 1/Unit square metres).
fastOverlapDecision(totalArea) ==
    IF totalArea > MAX_CLUSTER_SIZE * Unit
    THEN Result(TRUE, {ClusterTooBig(totalArea)}, {})
    ELSE Result(FALSE, {}, {})

\* The callback of the Rule made by fastOverlap, on the entity with this layer.
\* Returns the outcome with the graph and cache it leaves behind.
fastOverlap(graph, cache, layerID) ==
    LET gc == deleteFromAreaCache([graph |-> graph, cache |-> cache])
        n == getOverlappingLayerIds(layerID)
        u == updateLayerGraph(gc.graph, layerID, n.ids, TRUE)
        t == _recursiveGetTotalArea(u.graph, layerID, {}, gc.cache)
    IN IF n.err # "none"
       THEN [res |-> Thrown(n.err), totalArea |-> 0, checked |-> {},
             graph |-> gc.graph, cache |-> gc.cache]
       ELSE IF u.err # "none"
       THEN [res |-> Thrown(u.err), totalArea |-> 0, checked |-> {},
             graph |-> u.graph, cache |-> gc.cache]
       ELSE IF t.err # "none"
       THEN [res |-> Thrown(t.err), totalArea |-> 0, checked |-> t.checked,
             graph |-> u.graph, cache |-> t.cache]
       ELSE [res |-> fastOverlapDecision(t.totalArea), totalArea |-> t.totalArea,
             checked |-> t.checked, graph |-> u.graph, cache |-> t.cache]

----------------------------------------------------------------------------
(* Naive cluster alternative *)

\* The visited set is threaded through the calls; expanded counts the calls
\* that got past the visited test (those that take an area and walk the group).
RECURSIVE _getTotalAreaOfOverlappingEntities(_, _)
RECURSIVE sumOverlapping(_, _, _, _, _)
_getTotalAreaOfOverlappingEntities(layerID, checkedOverlappingLayers) ==
    IF layerID \in checkedOverlappingLayers
    THEN [totalArea |-> 0, checked |-> checkedOverlappingLayers, expanded |-> 0]
    ELSE sumOverlapping(layerID, layerGroup, area[layerID],
                        checkedOverlappingLayers \cup {layerID}, 1)

\* Faulty variant: the recursion follows the layers whose buffer overlaps this one.
RECURSIVE sumOverlappingBackward(_, _, _, _, _)
sumOverlappingBackward(layerID, todo, totalArea, checked, expanded) ==
    IF todo = {} THEN [totalArea |-> totalArea, checked |-> checked, expanded |-> expanded]
    ELSE LET otherLayer == Min(todo)
             rest == todo \ {otherLayer}
         IN IF _compareLayers(layerID, otherLayer)
            THEN sumOverlappingBackward(layerID, rest, totalArea, checked, expanded)
            ELSE IF geoType[otherLayer] \notin {"Feature", "FeatureCollection"}
            THEN sumOverlappingBackward(layerID, rest, totalArea, checked, expanded)
            ELSE IF <<otherLayer, layerID, 1>> \in overlap
            THEN LET r == _getTotalAreaOfOverlappingEntities(otherLayer, checked)
                 IN sumOverlappingBackward(layerID, rest, totalArea + r.totalArea,
                                           r.checked, expanded + r.expanded)
            ELSE sumOverlappingBackward(layerID, rest, totalArea, checked, expanded)

\* Faulty variant: the visited set of a recursive call is not kept for the next one.
RECURSIVE sumOverlappingForgetful(_, _, _, _, _)
sumOverlappingForgetful(layerID, todo, totalArea, checked, expanded) ==
    IF todo = {} THEN [totalArea |-> totalArea, checked |-> checked, expanded |-> expanded]
    ELSE LET otherLayer == Min(todo)
             rest == todo \ {otherLayer}
         IN IF _compareLayers(layerID, otherLayer)
            THEN sumOverlappingForgetful(layerID, rest, totalArea, checked, expanded)
            ELSE IF geoType[otherLayer] \notin {"Feature", "FeatureCollection"}
            THEN sumOverlappingForgetful(layerID, rest, totalArea, checked, expanded)
            ELSE IF <<layerID, otherLayer, 1>> \in overlap
            THEN LET r == _getTotalAreaOfOverlappingEntities(otherLayer, checked)
                 IN sumOverlappingForgetful(layerID, rest, totalArea + r.totalArea,
                                            checked \cup {otherLayer},
                                            expanded + r.expanded)
            ELSE sumOverlappingForgetful(layerID, rest, totalArea, checked, expanded)

\* layerGroup.eachLayer, in ascending id order.
sumOverlapping(layerID, todo, totalArea, checked, expanded) ==
    IF todo = {} THEN [totalArea |-> totalArea, checked |-> checked, expanded |-> expanded]
    ELSE LET otherLayer == Min(todo)
             rest == todo \ {otherLayer}
         IN IF _compareLayers(layerID, otherLayer)
            THEN sumOverlapping(layerID, rest, totalArea, checked, expanded)
            ELSE IF geoType[otherLayer] \notin {"Feature", "FeatureCollection"}
            THEN sumOverlapping(layerID, rest, totalArea, checked, expanded)
            ELSE IF <<layerID, otherLayer, 1>> \in overlap
            THEN LET r == _getTotalAreaOfOverlappingEntities(otherLayer, checked)
                 IN sumOverlapping(layerID, rest, totalArea + r.totalArea, r.checked,
                                   expanded + r.expanded)
            ELSE sumOverlapping(layerID, rest, totalArea, checked, expanded)

\* The decision of isBufferOverlappingRecursive on the total.
naiveDecision(totalArea) ==
    IF totalArea > MAX_CLUSTER_SIZE * Unit
    THEN Result(TRUE, {ClusterTooBig(totalArea)}, {})
    ELSE Result(FALSE, {}, {})

\* The callback of the Rule made by isBufferOverlappingRecursive.
isBufferOverlappingRecursive(layerID) ==
    LET t == _getTotalAreaOfOverlappingEntities(layerID, {})
    IN [res |-> naiveDecision(t.totalArea), totalArea |-> t.totalArea,
        checked |-> t.checked]

----------------------------------------------------------------------------
(* State machine *)

EmptyMap == [x \in {} |-> 0]

NoCall == [op |-> "none", id |-> 0, res |-> Thrown("none"), totalArea |-> 0,
           checked |-> {}, due |-> {}]

\* generateRulesForEditor: fastOverlap(placementLayers, 3, "yo", "yooo");
\* the naive rule is the entry of the same list that is commented out.
FastRuleArgs == [severity |-> 3, shortMessage |-> Msg("yo", 0), message |-> Msg("yooo", 0)]
NaiveRuleArgs == [severity |-> 3, shortMessage |-> Msg("Too large/close to others!", 0),
                  message |-> Msg("This area is either in itself too large, ...", 0)]

Construct(args) == NewRule(args.severity, args.shortMessage, args.message)

Engine ==
    /\ layersGraph = EmptyMap
    /\ areaCache = EmptyMap
    /\ hasRunOnce = FALSE
    /\ rules = [i \in Ids |-> Construct(FastRuleArgs)]
    /\ naiveRule = Construct(NaiveRuleArgs)
    /\ lastCall = NoCall
    /\ purgeDue = {}
    /\ edits = 0

Init ==
    /\ layerGroup = Ids
    /\ geoType = [i \in Ids |-> "FeatureCollection"]
    /\ area = [i \in Ids |-> Min(Areas)]
    /\ overlap = {}
    /\ given = FastRuleArgs
    /\ rule = Construct(given)
    /\ Engine

\* An edit from outside the engine: it ends the snapshot the last call saw.
Edit ==
    /\ edits < MaxEdits
    /\ edits' = edits + 1
    /\ lastCall' = NoCall
    /\ UNCHANGED <<layersGraph, areaCache, hasRunOnce, rules, naiveRule, rule, given>>

AddLayer(id) ==
    /\ id \notin layerGroup
    /\ Edit
    /\ layerGroup' = layerGroup \cup {id}
    /\ purgeDue' = purgeDue \ {id}
    /\ UNCHANGED <<geoType, area, overlap>>

RemoveLayer(id) ==
    /\ id \in layerGroup
    /\ Edit
    /\ layerGroup' = layerGroup \ {id}
    /\ purgeDue' = IF id \in DOMAIN layersGraph \cup DOMAIN areaCache
                   THEN purgeDue \cup {id} ELSE purgeDue
    /\ UNCHANGED <<geoType, area, overlap>>

SetArea(id, a) ==
    /\ a # area[id]
    /\ Edit
    /\ area' = [area EXCEPT ![id] = a]
    /\ UNCHANGED <<layerGroup, geoType, overlap, purgeDue>>

SetGeoType(id, t) ==
    /\ t # geoType[id]
    /\ Edit
    /\ geoType' = [geoType EXCEPT ![id] = t]
    /\ UNCHANGED <<layerGroup, area, overlap, purgeDue>>

\* The geometry of x or y changes so that the oracle's answer for the pair flips.
SetOverlap(x, y, k) ==
    /\ x # y
    /\ Edit
    /\ overlap' = IF <<x, y, k>> \in overlap
                  THEN overlap \ {<<x, y, k>>} ELSE overlap \cup {<<x, y, k>>}
    /\ UNCHANGED <<layerGroup, geoType, area, purgeDue>>

\* Faulty variant: the outcome is written to the Rule of every entity of the
\* cluster that was summed.
CheckFastCluster(id) ==
    \E f \in {fastOverlap(layersGraph, areaCache, id)} :
       /\ hasRunOnce' = TRUE
       /\ layersGraph' = f.graph
       /\ areaCache' = f.cache
       /\ rules' = [i \in Ids |-> IF i \in f.checked \cup {id}
                                  THEN checkRule(rules[i], f.res) ELSE rules[i]]
       /\ lastCall' = [op |-> "fastOverlap", id |-> id, res |-> f.res,
                       totalArea |-> f.totalArea, checked |-> f.checked,
                       due |-> purgeDue]
       /\ purgeDue' = {}
       /\ UNCHANGED <<collection, naiveRule, rule, given, edits>>

\* rules[id].checkRule(entity) for the Rule made by fastOverlap.
CheckFast(id) ==
    \E f \in {fastOverlap(layersGraph, areaCache, id)} :
       /\ hasRunOnce' = TRUE
       /\ layersGraph' = f.graph
       /\ areaCache' = f.cache
       /\ rules' = [rules EXCEPT ![id] = checkRule(@, f.res)]
       /\ lastCall' = [op |-> "fastOverlap", id |-> id, res |-> f.res,
                       totalArea |-> f.totalArea, checked |-> f.checked,
                       due |-> purgeDue]
       /\ purgeDue' = {}
       /\ UNCHANGED <<collection, naiveRule, rule, given, edits>>

\* naiveRule.checkRule(entity) for the Rule made by isBufferOverlappingRecursive.
CheckNaive(id) ==
    \E f \in {isBufferOverlappingRecursive(id)} :
       /\ naiveRule' = checkRule(naiveRule, f.res)
       /\ lastCall' = [op |-> "naive", id |-> id, res |-> f.res,
                       totalArea |-> f.totalArea, checked |-> f.checked, due |-> {}]
       /\ UNCHANGED <<collection, layersGraph, areaCache, hasRunOnce, rules, rule,
                      given, purgeDue, edits>>

\* The edits: members of a geometry beyond the first are read by no code, so
\* only the oracle's answers for first members are edited.
Edits ==
    \/ \E id \in Ids : AddLayer(id)
    \/ \E id \in Ids : RemoveLayer(id)
    \/ \E id \in Ids, a \in Areas : SetArea(id, a)
    \/ \E id \in Ids, t \in GeoTypes : SetGeoType(id, t)
    \/ \E x \in Ids, y \in Ids : SetOverlap(x, y, 1)

Next ==
    \/ Edits
    \/ \E id \in Ids : CheckFast(id)

Spec == Init /\ [][Next]_vars

\* The same collection under the naive rule alone.
NextNaive ==
    \/ Edits
    \/ \E id \in Ids : CheckNaive(id)

SpecNaive == Init /\ [][NextNaive]_vars

\* The same collection with the oracle's answer edited for any member feature
\* of a geometry, under both cluster rules.
NextMembers ==
    \/ \E x \in Ids, y \in Ids, k \in 1..MaxFeatures : SetOverlap(x, y, k)
    \/ \E id \in Ids : CheckFast(id)
    \/ \E id \in Ids : CheckNaive(id)

SpecMembers == Init /\ [][NextMembers]_vars

----------------------------------------------------------------------------
(* Two adjacent layers: layer 1 of 700 m2 and layer 2 of 600 m2, each one's
   buffer overlapping the other, in a collection whose other layers (500 m2)
   may or may not be adjacent to them; geometries are edited afterwards. *)

PairAreas ==
    [i \in Ids |-> IF i = 1 THEN 700 * Unit ELSE IF i = 2 THEN 600 * Unit ELSE 500 * Unit]

InitPair ==
    /\ layerGroup = Ids
    /\ geoType = [i \in Ids |-> "FeatureCollection"]
    /\ area = PairAreas
    /\ overlap \in
          {{<<1, 2, 1>>, <<2, 1, 1>>} \cup S :
              S \in SUBSET {p \in Ids \X Ids \X {1} :
                               p[1] # p[2] /\ {p[1], p[2]} # {1, 2}}}
    /\ given = FastRuleArgs
    /\ rule = Construct(given)
    /\ Engine

NextPair ==
    \/ \E x \in Ids, y \in Ids : SetOverlap(x, y, 1)
    \/ \E id \in Ids : CheckFast(id)

SpecPair == InitPair /\ [][NextPair]_vars

----------------------------------------------------------------------------
(* The two traversals alone: the incremental one on every symmetric graph
   over the layers, the naive one on every collection *)

Symmetric(g) == \A a \in DOMAIN g : \A b \in g[a] : b \in DOMAIN g /\ a \in g[b]

Graphs ==
    {g \in UNION {[K -> SUBSET K] : K \in SUBSET Ids} :
        Symmetric(g) /\ \A a \in DOMAIN g : a \notin g[a]}

Caches(K) == UNION {[C -> Areas] : C \in SUBSET K}

InitTraversal ==
    /\ layerGroup = Ids
    /\ geoType = [i \in Ids |-> "FeatureCollection"]
    /\ area = [i \in Ids |-> Min(Areas)]
    /\ overlap = {}
    /\ given = FastRuleArgs
    /\ rule = Construct(given)
    /\ hasRunOnce = FALSE
    /\ rules = [i \in Ids |-> Construct(FastRuleArgs)]
    /\ naiveRule = Construct(NaiveRuleArgs)
    /\ lastCall = NoCall
    /\ purgeDue = {}
    /\ edits = 0
    /\ layersGraph \in Graphs
    /\ areaCache \in Caches(DOMAIN layersGraph)

\* _recursiveGetTotalArea(layerID, layerGroup, new Set())
Traverse(id) ==
    /\ id \in DOMAIN layersGraph
    /\ \E t \in {_recursiveGetTotalArea(layersGraph, id, {}, areaCache)} :
          /\ areaCache' = t.cache
          /\ lastCall' = [op |-> "traverse", id |-> id, res |-> Thrown(t.err),
                          totalArea |-> t.totalArea, checked |-> t.checked, due |-> {},
                          expanded |-> t.expanded]
    /\ UNCHANGED <<collection, layersGraph, hasRunOnce, rules, naiveRule, rule, given,
                   purgeDue, edits>>

\* The naive traversal has no state of its own: its input is the collection,
\* here any set of layers with any answers of the oracle for their pairs.
InitNaiveTraversal ==
    /\ layerGroup \in SUBSET Ids
    /\ geoType = [i \in Ids |-> "FeatureCollection"]
    /\ area = [i \in Ids |-> Min(Areas)]
    /\ overlap \in SUBSET {p \in Ids \X Ids \X {1} : p[1] # p[2]}
    /\ given = FastRuleArgs
    /\ rule = Construct(given)
    /\ Engine

\* _getTotalAreaOfOverlappingEntities(entity.layer, layerGroup, new Set())
NaiveTraverse(id) ==
    /\ \E t \in {_getTotalAreaOfOverlappingEntities(id, {})} :
          lastCall' = [op |-> "naiveTraverse", id |-> id, res |-> Thrown("none"),
                       totalArea |-> t.totalArea, checked |-> t.checked, due |-> {},
                       expanded |-> t.expanded]
    /\ UNCHANGED <<collection, layersGraph, areaCache, hasRunOnce, rules, naiveRule,
                   rule, given, purgeDue, edits>>

NextTraversal ==
    \/ \E id \in Ids : Traverse(id)
    \/ \E id \in Ids : NaiveTraverse(id)

SpecTraversal == (InitTraversal \/ InitNaiveTraversal) /\ [][NextTraversal]_vars

----------------------------------------------------------------------------
(* One Rule of any kind: any constructor arguments, any predicate *)

Severities == 0..3
Texts == {Msg("text", 0), EmptyString}
Optional(S) == {{}} \cup {{x} : x \in S}

RuleArgs == [severity : Severities, shortMessage : Texts, message : Texts]

\* What a predicate can do: return a result, or throw.
Outcomes ==
    {Result(t, sm, m) : t \in BOOLEAN, sm \in Optional(Texts), m \in Optional(Texts)}
        \cup {Thrown("PredicateFailure")}

InitRule ==
    /\ layerGroup = Ids
    /\ geoType = [i \in Ids |-> "FeatureCollection"]
    /\ area = [i \in Ids |-> Min(Areas)]
    /\ overlap = {}
    /\ Engine
    /\ given \in RuleArgs
    /\ rule = Construct(given)

\* rule.checkRule(entity) with a predicate that ends in res.
CheckRule(res) ==
    /\ \E c \in {checkRuleRun(rule, res)} :
          /\ rule' = c.rule
          /\ lastCall' = [op |-> "checkRule", id |-> 0, res |-> res, totalArea |-> 0,
                          checked |-> {}, due |-> {}, before |-> rule,
                          calls |-> c.calls, thrown |-> c.thrown]
    /\ UNCHANGED <<collection, layersGraph, areaCache, hasRunOnce, rules, naiveRule,
                   given, purgeDue, edits>>

NextRule == \E res \in Outcomes : CheckRule(res)

SpecRule == InitRule /\ [][NextRule]_vars

----------------------------------------------------------------------------
(* A collection that is not edited: any set of layers and any answers of the
   oracle for their pairs, the engine as at load; the cluster rule of the
   entities of the collection is checked, in any order *)

InitSnapshot ==
    /\ layerGroup \in SUBSET Ids
    /\ geoType = [i \in Ids |-> "FeatureCollection"]
    /\ area = PairAreas
    /\ overlap \in SUBSET {p \in Ids \X Ids \X {1} : p[1] # p[2]}
    /\ given = FastRuleArgs
    /\ rule = Construct(given)
    /\ Engine

\* The entities whose rule has been checked so far.
Done == IF lastCall.op = "evaluate" THEN lastCall.done ELSE {}

\* rules[id].checkRule(entity) for an entity of the collection.
Evaluate(id) ==
    /\ id \in layerGroup
    /\ \E f \in {fastOverlap(layersGraph, areaCache, id)} :
          /\ hasRunOnce' = TRUE
          /\ layersGraph' = f.graph
          /\ areaCache' = f.cache
          /\ rules' = [rules EXCEPT ![id] = checkRule(@, f.res)]
          /\ lastCall' = [op |-> "evaluate", id |-> id, res |-> f.res,
                          totalArea |-> f.totalArea, checked |-> f.checked,
                          due |-> {}, done |-> Done \cup {id}]
    /\ UNCHANGED <<collection, naiveRule, rule, given, purgeDue, edits>>

\* The first evaluation of an entity.
EvaluateOnce(id) ==
    /\ id \notin Done
    /\ Evaluate(id)

\* Every entity is evaluated once.
NextOrder == \E id \in Ids : EvaluateOnce(id)

SpecOrder == InitSnapshot /\ [][NextOrder]_vars

\* The oracle's relation is symmetric; entities are evaluated again and again.
InitSettled ==
    /\ InitSnapshot
    /\ \A p \in overlap : <<p[2], p[1], p[3]>> \in overlap

NextSettled == \E id \in Ids : Evaluate(id)

SpecSettled == InitSettled /\ [][NextSettled]_vars

----------------------------------------------------------------------------
(* The edge diff alone: updateLayerGraph as fastOverlap calls it, on every
   symmetric graph, for every layer and every discovered set *)

InitGraph ==
    /\ layerGroup = Ids
    /\ geoType = [i \in Ids |-> "FeatureCollection"]
    /\ area = [i \in Ids |-> Min(Areas)]
    /\ overlap = {}
    /\ given = FastRuleArgs
    /\ rule = Construct(given)
    /\ hasRunOnce = FALSE
    /\ rules = [i \in Ids |-> Construct(FastRuleArgs)]
    /\ naiveRule = Construct(NaiveRuleArgs)
    /\ lastCall = NoCall
    /\ purgeDue = {}
    /\ edits = 0
    /\ layersGraph \in Graphs
    /\ areaCache = EmptyMap

\* updateLayerGraph(layerID, connLayersIDs, true)
UpdateGraph(layerID, connLayersIDs) ==
    /\ \E u \in {updateLayerGraph(layersGraph, layerID, connLayersIDs, TRUE)} :
          /\ layersGraph' = u.graph
          /\ lastCall' = [op |-> "updateLayerGraph", id |-> layerID,
                          res |-> Thrown(u.err), totalArea |-> 0, checked |-> {},
                          due |-> {}, before |-> layersGraph, conn |-> connLayersIDs]
    /\ UNCHANGED <<collection, areaCache, hasRunOnce, rules, naiveRule, rule, given,
                   purgeDue, edits>>

NextGraph ==
    \E layerID \in Ids :
        \E connLayersIDs \in SUBSET (Ids \ {layerID}) :
            UpdateGraph(layerID, connLayersIDs)

SpecGraph == InitGraph /\ [][NextGraph]_vars

----------------------------------------------------------------------------
(* The Rule made by hasLargeEnergyNeed, checked against an entity whose
   declared power need is whatever the editor holds at the time of the call *)

\* -1 is the need of an entity that has not declared one.
PowerNeeds ==
    {-1, 0} \cup ((MAX_POWER_NEED - MaxNeedStep)..(MAX_POWER_NEED + MaxNeedStep))

EnergyRuleArgs ==
    [severity |-> 1, shortMessage |-> Msg("Powerful.", 0),
     message |-> Msg("You need a lot of power, make sure its not a typo.", 0)]

\* Faulty variant: a need equal to the maximum triggers too.
hasLargeEnergyNeedAtLeast(powerNeed) ==
    Result(powerNeed >= MAX_POWER_NEED, {}, {})

\* The callback of the Rule made by hasLargeEnergyNeed, on entity.powerNeed.
hasLargeEnergyNeed(powerNeed) ==
    Result(powerNeed > MAX_POWER_NEED, {}, {})

InitEnergy ==
    /\ layerGroup = Ids
    /\ geoType = [i \in Ids |-> "FeatureCollection"]
    /\ area = [i \in Ids |-> Min(Areas)]
    /\ overlap = {}
    /\ Engine
    /\ given = EnergyRuleArgs
    /\ rule = Construct(given)

\* rule.checkRule(entity) for an entity with entity.powerNeed = powerNeed.
CheckEnergy(powerNeed) ==
    /\ \E res \in {hasLargeEnergyNeed(powerNeed)} :
          /\ rule' = checkRule(rule, res)
          /\ lastCall' = [op |-> "hasLargeEnergyNeed", id |-> 0, res |-> res,
                          totalArea |-> 0, checked |-> {}, due |-> {},
                          before |-> rule, powerNeed |-> powerNeed]
    /\ UNCHANGED <<collection, layersGraph, areaCache, hasRunOnce, rules, naiveRule,
                   given, purgeDue, edits>>

NextEnergy == \E powerNeed \in PowerNeeds : CheckEnergy(powerNeed)

SpecEnergy == InitEnergy /\ [][NextEnergy]_vars

----------------------------------------------------------------------------
(* Properties *)

RECURSIVE SumOf(_, _)
SumOf(S, f) == IF S = {} THEN 0 ELSE LET x == Min(S) IN f[x] + SumOf(S \ {x}, f)

\* The connected component of id in g, by closure under the neighbour sets.
RECURSIVE Closure(_, _)
Closure(g, S) ==
    LET T == S \cup UNION {g[x] : x \in S \cap DOMAIN g}
    IN IF T = S THEN S ELSE Closure(g, T)

Component(g, id) == Closure(g, {id})

FastCall == lastCall.op = "fastOverlap"
FastReturned == FastCall /\ lastCall.res.err = "none"

\* C1: the overlap graph is symmetric in every reachable state: whenever b is
\* in the neighbour set of a, b has an entry of its own and a is in it.
C1_GraphSymmetric == Symmetric(layersGraph)

\* C1 witness: an evaluation has run after a layer was removed and has left
\* an edge in the graph.
C1_Witness ==
    /\ FastCall
    /\ layerGroup # Ids
    /\ \E a \in DOMAIN layersGraph : layersGraph[a] # {}

\* C2: on the snapshot an incremental evaluation of E has just run on, its
\* total equals the total the naive algorithm computes for E.
C2_IncrementalEqualsNaive ==
    FastReturned =>
        lastCall.totalArea = isBufferOverlappingRecursive(lastCall.id).totalArea

\* C3: an id removed from the collection while tracked has, once the next
\* incremental evaluation (of any entity) has run, no cache entry, no graph
\* entry, and is in no neighbour set.
C3_RemovedIsPurged ==
    FastCall =>
        \A id \in lastCall.due :
            /\ id \notin DOMAIN areaCache
            /\ id \notin DOMAIN layersGraph
            /\ \A k \in DOMAIN layersGraph : id \notin layersGraph[k]

\* C5: the cluster-capacity rule is triggered exactly when the total is
\* strictly above MAX_CLUSTER_SIZE: after an incremental evaluation that
\* returned, and for the naive predicate on every entity of every snapshot.
C5_StrictThreshold ==
    /\ FastReturned =>
          /\ lastCall.res.triggered <=> lastCall.totalArea > MAX_CLUSTER_SIZE * Unit
          /\ triggered(rules[lastCall.id]) <=> lastCall.totalArea > MAX_CLUSTER_SIZE * Unit
    /\ \A id \in Ids :
          LET f == isBufferOverlappingRecursive(id)
          IN f.res.triggered <=> f.totalArea > MAX_CLUSTER_SIZE * Unit

\* C5 witness: an incremental evaluation found a total of exactly
\* MAX_CLUSTER_SIZE and the rule is not triggered.
C5_Witness ==
    /\ FastReturned
    /\ lastCall.totalArea = MAX_CLUSTER_SIZE * Unit
    /\ ~triggered(rules[lastCall.id])

\* C6: an incremental evaluation of an entity that is in the collection never
\* ends in "Layer not found".
C6_NoLayerNotFound ==
    FastCall /\ lastCall.id \in layerGroup => lastCall.res.err # "Layer not found"

\* C6 witness: an evaluation of an entity of the collection returned after a
\* tracked id had been removed from the collection.
C6_Witness ==
    /\ FastReturned
    /\ lastCall.id \in layerGroup
    /\ lastCall.due # {}

\* C7: at the end of every incremental evaluation, returned or thrown, every
\* id with a graph entry or a cache entry is in the collection.
C7_OnlyLiveIdsTracked ==
    FastCall => (DOMAIN layersGraph \cup DOMAIN areaCache) \subseteq layerGroup

\* The area an evaluation must use for id, given the cache before it.
Recorded(id) == IF id \in DOMAIN areaCache THEN areaCache[id] ELSE area[id]

\* C8: a recorded area stays as recorded while its entry exists; an entry
\* disappears only in an incremental evaluation, and only for an id that is
\* not in the collection; and an evaluation that returns has summed, for
\* every id it visited, the area recorded before it (the oracle's only for
\* an id without an entry).
C8_RecordedAreaKept ==
    [][/\ \A id \in DOMAIN areaCache :
            IF id \in DOMAIN areaCache'
            THEN areaCache'[id] = areaCache[id]
            ELSE id \notin layerGroup /\ lastCall'.op = "fastOverlap"
       /\ (lastCall'.op = "fastOverlap" /\ lastCall'.res.err = "none") =>
            lastCall'.totalArea =
                SumOf(lastCall'.checked, [id \in Ids |-> Recorded(id)])]_vars

\* C8 witness: an evaluation returned having visited an id whose recorded
\* area is not the area the oracle reports now.
C8_Witness ==
    /\ FastReturned
    /\ \E id \in lastCall.checked : areaCache[id] # area[id]

\* C4: a traversal started at E with an empty visited set visits exactly the
\* connected component of E and returns the sum of the cached areas of its
\* ids, each once.
C4_ComponentSummedOnce ==
    lastCall.op = "traverse" =>
        /\ lastCall.res.err = "none"
        /\ lastCall.checked = Component(layersGraph, lastCall.id)
        /\ lastCall.totalArea = SumOf(Component(layersGraph, lastCall.id), areaCache)

\* C4 witness: a traversal has run on a cycle a-b, b-c, c-a.
C4_Witness ==
    /\ lastCall.op = "traverse"
    /\ \E a \in Ids, b \in Ids, c \in Ids :
          /\ a # b /\ b # c /\ a # c
          /\ {a, b, c} \subseteq DOMAIN layersGraph
          /\ b \in layersGraph[a] /\ c \in layersGraph[b] /\ a \in layersGraph[c]
          /\ lastCall.id = a

\* C9: the severity getter returns 0 for a rule that is not triggered and the
\* severity given at construction for one that is.
C9_SeverityGetter ==
    severity(rule) = IF triggered(rule) THEN given.severity ELSE 0

\* C9 witness: a checkRule call has left the rule triggered, with a severity
\* above 0.
C9_Witness ==
    /\ lastCall.op = "checkRule"
    /\ triggered(rule)
    /\ given.severity > 0

\* C10: a new Rule is untriggered, and after a checkRule call that returned
\* the flag is the value the predicate returned on that call.
C10_TriggeredIsLastResult ==
    /\ lastCall.op = "none" => ~triggered(rule)
    /\ (lastCall.op = "checkRule" /\ lastCall.res.err = "none") =>
          triggered(rule) = lastCall.res.triggered

\* C10 witness: one call has taken a triggered rule to untriggered.
C10_Witness ==
    /\ lastCall.op = "checkRule"
    /\ lastCall.res.err = "none"
    /\ triggered(lastCall.before)
    /\ ~triggered(rule)

\* C11: a checkRule call whose predicate result has no shortMessage (resp. no
\* message) leaves the rule's shortMessage (resp. message) as it was before the
\* call; so a cluster-capacity rule keeps the computed "Cluster too big" text
\* when a later evaluation finds it not triggered.
C11_UnsuppliedTextKept ==
    [][\A id \in Ids :
          (lastCall'.op = "fastOverlap" /\ lastCall'.id = id
             /\ lastCall'.res.err = "none") =>
              /\ lastCall'.res.shortMessage = {} =>
                    rules'[id].shortMessage = rules[id].shortMessage
              /\ lastCall'.res.message = {} =>
                    rules'[id].message = rules[id].message]_vars

\* C11 witness: an evaluation has found the rule not triggered and the rule
\* still holds the text computed when it triggered.
C11_Witness ==
    /\ FastReturned
    /\ ~triggered(rules[lastCall.id])
    /\ rules[lastCall.id].shortMessage.text = "Cluster too big: <n>m2"

\* C12: after a checkRule call whose predicate result has a shortMessage
\* (resp. a message), whatever string it is, the empty one included, the
\* rule's shortMessage (resp. message) is that string.
C12_SuppliedTextStored ==
    (lastCall.op = "checkRule" /\ lastCall.res.err = "none") =>
        /\ lastCall.res.shortMessage # {} => rule.shortMessage \in lastCall.res.shortMessage
        /\ lastCall.res.message # {} => rule.message \in lastCall.res.message

\* C13: when the predicate throws during checkRule, it has been invoked once,
\* the caller of checkRule gets that same failure, and the rule's triggered
\* flag, shortMessage and message are the ones it had before the call.
C13_ThrowLeavesRule ==
    (lastCall.op = "checkRule" /\ lastCall.res.err # "none") =>
        /\ lastCall.calls = 1
        /\ lastCall.thrown = lastCall.res.err
        /\ triggered(rule) = triggered(lastCall.before)
        /\ rule.shortMessage = lastCall.before.shortMessage
        /\ rule.message = lastCall.before.message

\* C13 witness: the predicate threw on a rule that earlier calls had left
\* triggered and with a short message other than the constructor's.
C13_Witness ==
    /\ lastCall.op = "checkRule"
    /\ lastCall.res.err # "none"
    /\ triggered(rule)
    /\ rule.shortMessage # given.shortMessage

\* a and b are in the collection, each one's buffer overlaps the other's raw
\* geometry, and neither is adjacent, in either direction, to any other layer.
AdjacentPairAlone(a, b) ==
    /\ a # b
    /\ {a, b} \subseteq layerGroup
    /\ <<a, b, 1>> \in overlap /\ <<b, a, 1>> \in overlap
    /\ \A c \in layerGroup \ {a, b} :
          {<<a, c, 1>>, <<c, a, 1>>, <<b, c, 1>>, <<c, b, 1>>} \cap overlap = {}

\* C14: for two entities adjacent to each other and to nothing else, an
\* incremental evaluation of either returns with the total area(A) + area(B),
\* triggered with "Cluster too big: <rounded total>m2" exactly when that total
\* is above MAX_CLUSTER_SIZE (so both evaluations agree, in either order).
C14_PairTotal ==
    \A b \in Ids :
        (FastCall /\ AdjacentPairAlone(lastCall.id, b)) =>
            /\ lastCall.res.err = "none"
            /\ lastCall.totalArea = area[lastCall.id] + area[b]
            /\ lastCall.res = fastOverlapDecision(area[lastCall.id] + area[b])
            /\ triggered(rules[lastCall.id]) = lastCall.res.triggered

C16_UnsupportedIsFatal ==
    (/\ lastCall.op \in {"fastOverlap", "naive"}
     /\ \E o \in layerGroup \ {lastCall.id} :
           geoType[o] \notin {"Feature", "FeatureCollection"}) =>
        lastCall.res.err = "Unsupported geometry type"


\* C17: in an evaluation of E, incremental or naive, another entity of the
\* collection whose geometry is a FeatureCollection is taken as overlapping
\* E's buffer whenever the oracle finds any one of its member features
\* overlapping it: it is a neighbour of E in the graph (incremental), it is
\* visited (naive).
C17_AnyMemberCounts ==
    \A o \in layerGroup \ {lastCall.id} :
        (/\ geoType[o] = "FeatureCollection"
         /\ \E k \in 1..MaxFeatures : <<lastCall.id, o, k>> \in overlap) =>
            /\ FastReturned => o \in layersGraph[lastCall.id]
            /\ lastCall.op = "naive" => o \in lastCall.checked


\* C18: the Rule of an entity changes (flag, severity, texts) only in a
\* checkRule call on that entity: an evaluation of A leaves the Rule of every
\* other entity as it was, whatever it does to their cluster.
C18_OtherRulesUnchanged ==
    [][\A b \in Ids :
          rules'[b] # rules[b] => lastCall'.op = "fastOverlap" /\ lastCall'.id = b]_vars

\* C18 witness: an evaluation of A has triggered on a cluster that holds
\* another entity, whose own Rule is not triggered.
C18_Witness ==
    /\ FastReturned
    /\ triggered(rules[lastCall.id])
    /\ \E b \in lastCall.checked \ {lastCall.id} :
          ~triggered(rules[b]) /\ severity(rules[b]) = 0


\* The layers reached from those of S along the relation "the buffer of x
\* overlaps the raw geometry of y", y a layer of the collection other than x.
RECURSIVE BufferReach(_)
BufferReach(S) ==
    LET T == S \cup {y \in layerGroup : \E x \in S : x # y /\ <<x, y, 1>> \in overlap}
    IN IF T = S THEN S ELSE BufferReach(T)

\* C19: the naive traversal started at E with an empty visited set visits
\* exactly the entities reached from E along the directed relation "x's
\* buffer overlaps y's raw geometry" over the collection, returns the sum of
\* the oracle's areas of those entities, each once, and leaves the graph and
\* the area cache as they are.
C19_NaiveSumsBufferReach ==
    [][lastCall'.op = "naiveTraverse" =>
          /\ lastCall'.checked = BufferReach({lastCall'.id})
          /\ lastCall'.totalArea = SumOf(BufferReach({lastCall'.id}), area)
          /\ UNCHANGED <<layersGraph, areaCache>>]_vars

\* C19 witness: the traversal has visited an entity that the start's buffer
\* overlaps and whose own buffer does not overlap the start.
C19_Witness ==
    /\ lastCall.op = "naiveTraverse"
    /\ \E b \in lastCall.checked :
          <<lastCall.id, b, 1>> \in overlap /\ <<b, lastCall.id, 1>> \notin overlap

\* C20: both traversals end, and each expands an id at most once: the number
\* of calls that got past the visited test is the number of ids visited, which
\* is at most the number of ids.
C20_ExpandedOnce ==
    lastCall.op \in {"traverse", "naiveTraverse"} =>
        /\ lastCall.expanded = Cardinality(lastCall.checked)
        /\ lastCall.expanded <= Cardinality(Ids)

\* C20 witness: the naive traversal has run round a directed cycle
\* a -> b -> c -> a of the overlap relation.
C20_Witness ==
    /\ lastCall.op = "naiveTraverse"
    /\ \E a \in Ids, b \in Ids, c \in Ids :
          /\ a # b /\ b # c /\ a # c
          /\ lastCall.id = a
          /\ {a, b, c} \subseteq lastCall.checked
          /\ {<<a, b, 1>>, <<b, c, 1>>, <<c, a, 1>>} \subseteq overlap
          /\ <<a, c, 1>> \notin overlap


\* C21: after a check of the hasLargeEnergyNeed rule the rule is triggered
\* exactly when the entity's declared power need is above 8000 (8001
\* triggers, 8000 does not), whatever the rule was before the check; its
\* severity is then the 1 it was made with, and its texts stay the
\* constructor's.
C21_EnergyThreshold ==
    lastCall.op = "hasLargeEnergyNeed" =>
        /\ triggered(rule) <=> lastCall.powerNeed > 8000
        /\ lastCall.powerNeed = 8001 => triggered(rule)
        /\ lastCall.powerNeed = 8000 => ~triggered(rule)
        /\ severity(rule) = IF lastCall.powerNeed > 8000 THEN 1 ELSE 0
        /\ rule.shortMessage = given.shortMessage /\ rule.message = given.message

\* C21 witness: a rule that had triggered is checked again with the need back
\* at 8000 and is no longer triggered.
C21_Witness ==
    /\ lastCall.op = "hasLargeEnergyNeed"
    /\ triggered(lastCall.before)
    /\ lastCall.powerNeed = 8000
    /\ ~triggered(rule)


\* C22: a Rule whose severity reads 0 is not triggered, whichever of the
\* severities 0..3 it was constructed with.
C22_SeverityZeroUntriggered ==
    severity(rule) = 0 => ~triggered(rule)


\* The graph g with every edge at E removed at both ends and an edge E-n put
\* in at both ends for every n of N, entries being made where missing.
ReplaceEdges(g, E, N) ==
    [k \in DOMAIN g \cup {E} \cup N |->
        LET old == IF k \in DOMAIN g THEN g[k] ELSE {}
        IN IF k = E THEN N
           ELSE IF k \in N THEN old \cup {E}
           ELSE old \ {E}]

\* C23: the graph after the edge diff of E against a discovered set N is the
\* graph with E's edges removed and the edges E-n, n in N, put in afresh: an
\* id of P \ N has lost E, an id of N \ P has gained E (with an entry made for
\* it if it had none), and the set of an id in both is as it was.
C23_DiffIsReplacement ==
    lastCall.op = "updateLayerGraph" =>
        LET E == lastCall.id
            N == lastCall.conn
            P == IF E \in DOMAIN lastCall.before THEN lastCall.before[E] ELSE {}
        IN /\ lastCall.res.err = "none"
           /\ layersGraph = ReplaceEdges(lastCall.before, E, N)
           /\ layersGraph[E] = N
           /\ \A k \in P \ N : E \notin layersGraph[k]
           /\ \A k \in N \ P : E \in layersGraph[k]
           /\ \A k \in P \cap N : layersGraph[k] = lastCall.before[k]

\* C23 witness: one diff has dropped a neighbour and added another, the new
\* one having had no entry in the graph.
C23_Witness ==
    /\ lastCall.op = "updateLayerGraph"
    /\ lastCall.id \in DOMAIN lastCall.before
    /\ lastCall.before[lastCall.id] \ lastCall.conn # {}
    /\ lastCall.conn \ DOMAIN lastCall.before # {}


\* y is recorded as a neighbour of x in g.
Edge(g, x, y) == x \in DOMAIN g /\ y \in g[x]

\* C24: an incremental evaluation of E, returned or thrown, leaves every edge
\* between two ids of the collection other than E as it was: recorded after
\* it exactly if recorded before it.
C24_OtherEdgesUnchanged ==
    [][lastCall'.op = "fastOverlap" =>
          \A x \in layerGroup \ {lastCall'.id}, y \in layerGroup \ {lastCall'.id} :
              Edge(layersGraph', x, y) <=> Edge(layersGraph, x, y)]_vars

\* C24 witness: after an evaluation of E the graph still holds an edge between
\* two other entities of the collection neither of whose buffers overlaps the
\* other any more.
C24_Witness ==
    /\ FastCall
    /\ \E x \in layerGroup \ {lastCall.id}, y \in layerGroup \ {lastCall.id} :
          /\ Edge(layersGraph, x, y)
          /\ <<x, y, 1>> \notin overlap /\ <<y, x, 1>> \notin overlap


\* C27: every id with an entry in the area cache has an entry in the graph;
\* so at the end of an incremental evaluation, whose first step drops every
\* graph id that is not in the collection from both, no id outside the
\* collection has a cache entry.
C27_CachedIdsInGraph ==
    /\ DOMAIN areaCache \subseteq DOMAIN layersGraph
    /\ FastCall => DOMAIN areaCache \subseteq layerGroup

\* C27 witness: an evaluation has run after the removal of a layer the engine
\* tracked; the cache still holds areas, for fewer ids than the graph has.
C27_Witness ==
    /\ FastCall
    /\ lastCall.due # {}
    /\ areaCache # EmptyMap
    /\ DOMAIN layersGraph # DOMAIN areaCache


\* The graph left by evaluating the entities of todo in ascending order, from
\* the graph and cache of st.
RECURSIVE EvaluateInOrder(_, _)
EvaluateInOrder(st, todo) ==
    IF todo = {} THEN st.graph
    ELSE LET id == Min(todo)
             f == fastOverlap(st.graph, st.cache, id)
         IN EvaluateInOrder([graph |-> f.graph, cache |-> f.cache], todo \ {id})

\* The oracle's relation on first members is symmetric.
SymmetricOverlap == \A p \in overlap : <<p[2], p[1], p[3]>> \in overlap

\* C25 as stated: on a collection that is not edited, from an empty graph and
\* cache, the graph reached once every entity of the collection has been
\* evaluated exactly once is the same whatever the order (here: the one the
\* ascending order gives), also when the oracle's relation is not symmetric.
C25_OrderIndependent ==
    (Done = layerGroup) =>
        layersGraph = EvaluateInOrder([graph |-> EmptyMap, cache |-> EmptyMap], layerGroup)

\* C25, amended: the same when the oracle's relation is symmetric; the graph
\* reached is then the relation itself on the entities of the collection.
C25_OrderIndependentIfSymmetric ==
    (Done = layerGroup /\ SymmetricOverlap) =>
        /\ layersGraph =
              EvaluateInOrder([graph |-> EmptyMap, cache |-> EmptyMap], layerGroup)
        /\ layersGraph =
              [x \in layerGroup |-> {y \in layerGroup : <<x, y, 1>> \in overlap}]

\* C25 witness: three entities in a chain a - b - c of a symmetric relation
\* have each been evaluated once, the middle one last.
C25_Witness ==
    /\ Done = layerGroup
    /\ SymmetricOverlap
    /\ \E a \in layerGroup, b \in layerGroup, c \in layerGroup :
          /\ a # c
          /\ {<<a, b, 1>>, <<b, c, 1>>} \subseteq overlap
          /\ <<a, c, 1>> \notin overlap
          /\ lastCall.id = b
          /\ b # Min(layerGroup)
          /\ \E d \in layerGroup : d > b


\* C26: on a collection that is not edited and whose overlap relation is
\* symmetric, from an empty graph and cache, once every entity of the
\* collection has been evaluated by the incremental rule at least once, the
\* incremental evaluation of any entity returns the total the naive algorithm
\* computes for it, with the same trigger decision; so did the evaluation
\* that has just run.
C26_SettledEqualsNaive ==
    (layerGroup \subseteq Done /\ SymmetricOverlap) =>
        /\ \A E \in layerGroup :
              LET f == fastOverlap(layersGraph, areaCache, E)
                  n == isBufferOverlappingRecursive(E)
              IN /\ f.res.err = "none"
                 /\ f.totalArea = n.totalArea
                 /\ f.res.triggered = n.res.triggered
        /\ lastCall.op = "evaluate" =>
              LET n == isBufferOverlappingRecursive(lastCall.id)
              IN /\ lastCall.totalArea = n.totalArea
                 /\ triggered(rules[lastCall.id]) = n.res.triggered

\* C26 witness: every entity has been evaluated, and the last evaluation
\* triggered on a cluster that reaches an entity its own buffer does not
\* overlap.
C26_Witness ==
    /\ layerGroup \subseteq Done
    /\ layerGroup # {}
    /\ SymmetricOverlap
    /\ lastCall.res.triggered
    /\ \E c \in lastCall.checked \ {lastCall.id} : <<lastCall.id, c, 1>> \notin overlap

====
